---- MODULE Spec2Model ----
(***************************************************************************)
(* streamcorpus-opensextant: the OpenSextantTagger stage (process_item)    *)
(* and the offset aligner (annotate_sentences) with its type table         *)
(* (entity_types), as a state machine.                                     *)
(*                                                                         *)
(* A hierarchy such as 'Geo.featureType.Area' is held as the sequence of   *)
(* its dot-separated segments, <<"Geo", "featureType", "Area">>, so that   *)
(* fhierarchy.split('.') is the sequence itself and fh_parts[0] its head.  *)
(***************************************************************************)
EXTENDS Integers, Sequences, FiniteSets, TLC

VARIABLES
    clean_visible,    \* si.body.clean_visible: "None" (absent), "" or "text"
    tokens,           \* token id -> Token (offsets and annotation fields)
    sentences,        \* si.body.sentences: tagger id -> value
    taggings,         \* si.body.taggings: tagger id -> Tagging
    service,          \* the JSON object the remote service holds for this text
    pc,               \* position of the stage: idle, posting, posted, anno, tok
    calls,            \* process_item calls started so far
    response,         \* response.content of the call in progress
    result,           \* local of process_item: the parsed JSON
    toks,             \* local of annotate_sentences: token ids sorted by first
    mention_id,       \* local of annotate_sentences: the mention counter
    anno_idx,         \* position of the for loop over annoList (1-based)
    range,            \* tokens of toks.find_range(start, end) still to visit
    fhierarchy,       \* local of the token loop: last hierarchy looked up
    e_m,              \* locals e_type, m_type of the token loop
    outcome,          \* how the last process_item call ended
    critical_logged,  \* an alignment failure was logged at critical level
    snapshot,         \* tokens as the previous completed alignment left them
    completed         \* alignments that ran to the end of annoList

vars == <<clean_visible, tokens, sentences, taggings, service, pc, calls,
          response, result, toks, mention_id, anno_idx, range, fhierarchy,
          e_m, outcome, critical_logged, snapshot, completed>>

(***************************************************************************)
(* Bounds of the model.                                                    *)
(***************************************************************************)
MaxCalls == 2
MaxAnnos == 2

(***************************************************************************)
(* Values.                                                                 *)
(***************************************************************************)
None == "None"
NoneId == -1
NoneEntry == <<>>
NoneValue == [tag |-> "None"]
tagger_id == "opensextant"
tagger_version == "2.1"

ListValue(items) == [tag |-> "list", items |-> items]

(***************************************************************************)
(* entity_types: hierarchy -> (EntityType, MentionType) or None.           *)
(***************************************************************************)
entity_types ==
    {
      <<<<"Action">>, <<"EVENT", "NOM">>>>,
      <<<<"Attribute", "attribute", "measurableCharacteristic">>, NoneEntry>>,
      <<<<"Attribute", "weight">>, NoneEntry>>,
      <<<<"Geo", "area">>, <<"LOC", "NOM">>>>,
      <<<<"Geo", "distance">>, <<"LOC", "NOM">>>>,
      <<<<"Geo", "weather">>, <<"LOC", "NOM">>>>,
      <<<<"Geo", "featureType", "AdminRegion">>, <<"LOC", "NAME">>>>,
      <<<<"Geo", "featureType", "Area">>, <<"LOC", "NAME">>>>,
      <<<<"Geo", "featureType", "Hydro">>, <<"LOC", "NAME">>>>,
      <<<<"Geo", "featureType", "Hypso">>, <<"LOC", "NAME">>>>,
      <<<<"Geo", "featureType", "Misc">>, <<"LOC", "NAME">>>>,
      <<<<"Geo", "featureType", "PopulatedPlace">>, <<"LOC", "NAME">>>>,
      <<<<"Geo", "featureType", "Street">>, <<"LOC", "NAME">>>>,
      <<<<"Geo", "featureType", "Undersea">>, <<"LOC", "NAME">>>>,
      <<<<"Geo", "featureType", "Vegetation">>, <<"LOC", "NAME">>>>,
      <<<<"Geo", "place", "geocoordinate">>, <<"LOC", "NAME">>>>,
      <<<<"Geo", "place", "namedPlace">>, <<"LOC", "NAME">>>>,
      <<<<"Geo", "featureType", "SpotFeature">>, <<"FAC", "NAME">>>>,
      <<<<"Geo", "facilityComponents">>, <<"FAC", "NAME">>>>,
      <<<<"Idea">>, NoneEntry>>,
      <<<<"Information">>, NoneEntry>>,
      <<<<"Object">>, NoneEntry>>,
      <<<<"Organization">>, <<"ORG", "NAME">>>>,
      <<<<"Person">>, <<"PER", "NAME">>>>,
      <<<<"Person", "attitude", "emotion">>, NoneEntry>>,
      <<<<"Person", "attitude", "emotion", "negativeEmotion">>, NoneEntry>>,
      <<<<"Person", "attitude", "emotion", "positiveEmotion">>, NoneEntry>>,
      <<<<"Person", "bodyPart">>, NoneEntry>>,
      <<<<"Person", "ethnicity">>, NoneEntry>>,
      <<<<"Person", "health">>, NoneEntry>>,
      <<<<"Person", "health", "disease">>, NoneEntry>>,
      <<<<"Person", "health", "injury">>, NoneEntry>>,
      <<<<"Person", "jobOrRole">>, NoneEntry>>,
      <<<<"Person", "language">>, NoneEntry>>,
      <<<<"Person", "name", "personName">>, <<"PER", "NAME">>>>,
      <<<<"Person", "name", "title", "corporateTitle">>, <<"PER", "NOM">>>>,
      <<<<"Person", "name", "title", "governmentTitle">>, <<"PER", "NOM">>>>,
      <<<<"Person", "name", "title", "hereditaryTitle">>, <<"PER", "NOM">>>>,
      <<<<"Person", "name", "title", "militaryTitle">>, <<"PER", "NOM">>>>,
      <<<<"Person", "name", "title", "personalTitle">>, <<"PER", "NOM">>>>,
      <<<<"Person", "name", "title", "religiousTitle">>, <<"PER", "NOM">>>>,
      <<<<"Person", "relative">>, NoneEntry>>,
      <<<<"Substance">>, NoneEntry>>,
      <<<<"Time">>, NoneEntry>>
    }

HasKey(key) == \E entry \in entity_types : entry[1] = key

\* dict.get(key): the value, or None when the key is absent
Get(key) ==
    IF HasKey(key)
    THEN (CHOOSE entry \in entity_types : entry[1] = key)[2]
    ELSE NoneEntry

\* truth value of a table value in an if: None is false, a pair is true
Truthy(value) == value # NoneEntry

\* fhierarchy.split('.')
split(fh) == fh

\* lines 211-218: e_type, m_type for an annotation's hierarchy
lookup(fh) ==
    LET fh_parts == split(fh)
    IN  IF Truthy(Get(fh))
        THEN Get(fh)
        ELSE IF Truthy(Get(<<fh_parts[1]>>))
             THEN Get(<<fh_parts[1]>>)
             ELSE <<None, None>>

(***************************************************************************)
(* Tokens and the sorted collection.                                       *)
(***************************************************************************)
Token(first, length) ==
    [first |-> first, length |-> length, entity_type |-> None,
     mention_type |-> None, mention_id |-> NoneId, equiv_id |-> NoneId]

RECURSIVE chain(_)
\* itertools.chain(*[sent.tokens for sent in sentences])
chain(sents) == IF sents = <<>> THEN <<>> ELSE Head(sents) \o chain(Tail(sents))

RECURSIVE insert(_, _)
insert(sorted, t) ==
    IF sorted = <<>> THEN <<t>>
    ELSE IF tokens[t].first < tokens[Head(sorted)].first
         THEN <<t>> \o sorted
         ELSE <<Head(sorted)>> \o insert(Tail(sorted), t)

RECURSIVE SortedCollection(_)
\* SortedCollection(iterable, key = first byte offset)
SortedCollection(ids) ==
    IF ids = <<>> THEN <<>>
    ELSE insert(SortedCollection(Tail(ids)), Head(ids))

\* a token's span [first, first + length) meets [start, end)
Intersects(t, start, end) ==
    tokens[t].first < end /\ tokens[t].first + tokens[t].length > start

\* toks.find_range(start, end): the tokens meeting [start, end), by offset
find_range(ts, start, end) ==
    SelectSeq(ts, LAMBDA t : Intersects(t, start, end))

(***************************************************************************)
(* Annotation records of the response.  `missing` names the keys the       *)
(* record lacks; a lacking key's field holds a filler that is never read.  *)
(***************************************************************************)
Anno(start, end, hierarchy, isEntity, matches, missing) ==
    [start |-> start, end |-> end, hierarchy |-> hierarchy,
     isEntity |-> isEntity, matches |-> matches, missing |-> missing]

\* a lookup of a lacking key that does not raise
NoKeyError(anno, key) == FALSE

\* anno[key] raises KeyError
MissingKey(anno, key) == key \in anno.missing

\* anno.get('features', {}).get('isEntity')
isEntity(anno) ==
    /\ "features" \notin anno.missing
    /\ "isEntity" \notin anno.missing
    /\ anno.isEntity

\* result.get('annoList', [])
annoList(res) == IF "annoList" \in DOMAIN res THEN res.annoList ELSE <<>>

CurAnno == annoList(result)[anno_idx]

\* the counter of the previous call, kept instead of starting over
StaleMentionId == mention_id

\* line 197
InitialMentionId == 0

\* the counter left where it is at the end of an annotation
SameMentionId(m) == m

\* line 228
NextMentionId(m) == m + 1

\* the counter advanced once per token
CountPerToken(m) == m + 1

\* the token loop leaves the counter alone
TokLoopMentionId(m) == m

\* the assignment made without the test of line 220
AlwaysAssign(e_type) == TRUE

\* line 220
ShouldAssign(e_type) == e_type # None

\* annotate_sentences has no return statement
annotate_sentences_return == NoneValue

make_tagging(now) ==
    [tagger_id |-> tagger_id, tagger_version |-> tagger_version,
     generation_time |-> now]

(***************************************************************************)
(* Inputs: token layouts and the annotation pool.                          *)
(***************************************************************************)
GeoArea == <<"Geo", "area">>
Newspaper == <<"Organization", "media", "newspaper">>
PersonHealth == <<"Person", "health">>
Object == <<"Object">>

\* "ab cd": one sentence, a gap between the tokens
Layout1 == [tokens |-> <<Token(0, 2), Token(3, 2)>>, sents |-> << <<1, 2>> >>]
\* "abc" "de": two sentences, adjacent tokens
Layout2 == [tokens |-> <<Token(0, 3), Token(3, 2)>>, sents |-> << <<1>>, <<2>> >>]
\* "a" "bc" "de": three tokens, the first two adjacent
Layout3 ==
    [tokens |-> <<Token(0, 1), Token(1, 2), Token(3, 2)>>,
     sents |-> << <<1, 2>>, <<3>> >>]
Layouts == {Layout1, Layout2, Layout3}

Spans == {<<0, 2>>, <<2, 3>>, <<3, 5>>, <<1, 4>>, <<0, 5>>}

Pool ==
    {Anno(s[1], s[2], GeoArea, TRUE, TRUE, {}) : s \in Spans}
    \cup {Anno(s[1], s[2], Newspaper, TRUE, TRUE, {}) : s \in {<<3, 5>>}}
    \cup {Anno(s[1], s[2], PersonHealth, TRUE, TRUE, {}) : s \in {<<0, 2>>, <<0, 5>>}}
    \cup {Anno(s[1], s[2], Object, TRUE, TRUE, {}) : s \in {<<0, 5>>, <<3, 5>>}}
    \cup {Anno(0, 5, GeoArea, FALSE, TRUE, {}),
          Anno(3, 5, GeoArea, TRUE, FALSE, {}),
          Anno(0, 5, GeoArea, TRUE, TRUE, {"start"}),
          Anno(0, 5, GeoArea, TRUE, TRUE, {"hierarchy"})}

SeqsUpTo(S, n) == UNION {[1..k -> S] : k \in 0..n}

Services ==
    {[annoList |-> l] : l \in SeqsUpTo(Pool, MaxAnnos)} \cup {[status |-> "ok"]}

InitWith(layout, svc, text) ==
    /\ clean_visible = text
    /\ tokens = layout.tokens
    /\ sentences = [k \in {"nltk_tokenizer"} |-> ListValue(layout.sents)]
    /\ taggings = [k \in {} |-> 0]
    /\ service = svc
    /\ pc = "idle"
    /\ calls = 0
    /\ response = None
    /\ result = [status |-> "none"]
    /\ toks = <<>>
    /\ mention_id = 0
    /\ anno_idx = 1
    /\ range = <<>>
    /\ fhierarchy = <<>>
    /\ e_m = <<None, None>>
    /\ outcome = None
    /\ critical_logged = FALSE
    /\ snapshot = layout.tokens
    /\ completed = 0

Init ==
    \E layout \in Layouts, svc \in Services, text \in {None, "", "text"} :
        InitWith(layout, svc, text)

(***************************************************************************)
(* process_item                                                            *)
(***************************************************************************)
\* line 149
HasText == clean_visible # None /\ clean_visible # ""

\* line 149 false, line 169
ProcessItemNoText ==
    /\ pc = "idle" /\ calls < MaxCalls /\ ~HasText
    /\ calls' = calls + 1
    /\ outcome' = "returned"
    /\ UNCHANGED <<clean_visible, tokens, sentences, taggings, service, pc,
                   response, result, toks, mention_id, anno_idx, range,
                   fhierarchy, e_m, critical_logged, snapshot, completed>>

\* lines 149-153: the request is sent
Post ==
    /\ pc = "idle" /\ calls < MaxCalls /\ HasText
    /\ calls' = calls + 1
    /\ pc' = "posting"
    /\ UNCHANGED <<clean_visible, tokens, sentences, taggings, service,
                   response, result, toks, mention_id, anno_idx, range,
                   fhierarchy, e_m, outcome, critical_logged, snapshot,
                   completed>>

\* lines 153-159: session.post raises (connection error, timeout)
PostRaises ==
    /\ pc = "posting"
    /\ pc' = "idle"
    /\ outcome' = "RequestException"
    /\ UNCHANGED <<clean_visible, tokens, sentences, taggings, service, calls,
                   response, result, toks, mention_id, anno_idx, range,
                   fhierarchy, e_m, critical_logged, snapshot, completed>>

\* lines 153-159: session.post returns a response
PostReturns ==
    /\ pc = "posting"
    /\ \E content \in {"json", "not json"} : response' = content
    /\ pc' = "posted"
    /\ UNCHANGED <<clean_visible, tokens, sentences, taggings, service, calls,
                   result, toks, mention_id, anno_idx, range, fhierarchy, e_m,
                   outcome, critical_logged, snapshot, completed>>

\* line 160: json.loads raises
JsonLoadsRaises ==
    /\ pc = "posted" /\ response = "not json"
    /\ pc' = "idle"
    /\ outcome' = "ValueError"
    /\ UNCHANGED <<clean_visible, tokens, sentences, taggings, service, calls,
                   response, result, toks, mention_id, anno_idx, range,
                   fhierarchy, e_m, critical_logged, snapshot, completed>>

\* lines 160-163 and 191-197: parse, make_tagging, enter annotate_sentences
JsonLoads ==
    /\ pc = "posted" /\ response = "json"
    /\ result' = service
    /\ taggings' = [k \in DOMAIN taggings \cup {tagger_id} |->
                       IF k = tagger_id THEN make_tagging(calls) ELSE taggings[k]]
    /\ toks' = SortedCollection(chain(sentences["nltk_tokenizer"].items))
    /\ mention_id' = InitialMentionId
    /\ anno_idx' = 1
    /\ range' = <<>>
    /\ pc' = "anno"
    /\ UNCHANGED <<clean_visible, tokens, sentences, service, calls, response,
                   fhierarchy, e_m, outcome, critical_logged, snapshot,
                   completed>>

(***************************************************************************)
(* annotate_sentences                                                      *)
(***************************************************************************)
InLoop == pc = "anno" /\ anno_idx <= Len(annoList(result))

\* lines 199-202: continue
AnnoSkip ==
    /\ InLoop /\ ~isEntity(CurAnno)
    /\ anno_idx' = anno_idx + 1
    /\ UNCHANGED <<clean_visible, tokens, sentences, taggings, service, pc,
                   calls, response, result, toks, mention_id, range,
                   fhierarchy, e_m, outcome, critical_logged, snapshot,
                   completed>>

\* lines 203-205: anno['start'], anno['end'] or anno['matchText'] raises
AnnoKeyError ==
    /\ InLoop /\ isEntity(CurAnno)
    /\ \E key \in {"start", "end", "matchText"} : MissingKey(CurAnno, key)
    /\ pc' = "idle"
    /\ outcome' = "KeyError"
    /\ UNCHANGED <<clean_visible, tokens, sentences, taggings, service, calls,
                   response, result, toks, mention_id, anno_idx, range,
                   fhierarchy, e_m, critical_logged, snapshot, completed>>

\* lines 203-210: read the span, compare the text, find the tokens
AnnoRange ==
    /\ InLoop /\ isEntity(CurAnno)
    /\ \A key \in {"start", "end", "matchText"} : ~MissingKey(CurAnno, key)
    /\ critical_logged' = (critical_logged \/ ~CurAnno.matches)
    /\ range' = find_range(toks, CurAnno.start, CurAnno.end)
    /\ pc' = "tok"
    /\ UNCHANGED <<clean_visible, tokens, sentences, taggings, service, calls,
                   response, result, toks, mention_id, anno_idx, fhierarchy,
                   e_m, outcome, snapshot, completed>>

\* line 211: anno['features']['hierarchy'] raises
TokKeyError ==
    /\ pc = "tok" /\ range # <<>>
    /\ MissingKey(CurAnno, "hierarchy")
    /\ pc' = "idle"
    /\ outcome' = "KeyError"
    /\ UNCHANGED <<clean_visible, tokens, sentences, taggings, service, calls,
                   response, result, toks, mention_id, anno_idx, range,
                   fhierarchy, e_m, critical_logged, snapshot, completed>>

\* lines 220-226
Assigned(tok, e_type, m_type, id) ==
    [tok EXCEPT !.entity_type = e_type, !.mention_type = m_type,
                !.mention_id = id, !.equiv_id = id]

\* lines 210-226: one pass of the token loop
TokAnnotate ==
    /\ pc = "tok" /\ range # <<>>
    /\ ~MissingKey(CurAnno, "hierarchy")
    /\ LET types == lookup(CurAnno.hierarchy)
           t == Head(range)
       IN  /\ fhierarchy' = CurAnno.hierarchy
           /\ e_m' = types
           /\ tokens' = IF ShouldAssign(types[1])
                        THEN [tokens EXCEPT ![t] =
                                 Assigned(@, types[1], types[2], mention_id)]
                        ELSE tokens
    /\ mention_id' = TokLoopMentionId(mention_id)
    /\ range' = Tail(range)
    /\ UNCHANGED <<clean_visible, sentences, taggings, service, pc, calls,
                   response, result, toks, anno_idx, outcome, critical_logged,
                   snapshot, completed>>

\* line 228, after the token loop
AnnoEnd ==
    /\ pc = "tok" /\ range = <<>>
    /\ mention_id' = NextMentionId(mention_id)
    /\ anno_idx' = anno_idx + 1
    /\ pc' = "anno"
    /\ UNCHANGED <<clean_visible, tokens, sentences, taggings, service, calls,
                   response, result, toks, range, fhierarchy, e_m, outcome,
                   critical_logged, snapshot, completed>>

AlignmentDone == pc = "anno" /\ anno_idx > Len(annoList(result))

\* the loop ends; line 164 stores what annotate_sentences returned; line 169
Return ==
    /\ AlignmentDone
    /\ sentences' = [k \in DOMAIN sentences \cup {tagger_id} |->
                        IF k = tagger_id THEN annotate_sentences_return
                        ELSE sentences[k]]
    /\ pc' = "idle"
    /\ outcome' = "returned"
    /\ snapshot' = tokens
    /\ completed' = completed + 1
    /\ UNCHANGED <<clean_visible, tokens, taggings, service, calls, response,
                   result, toks, mention_id, anno_idx, range, fhierarchy, e_m,
                   critical_logged>>

Next ==
    \/ ProcessItemNoText
    \/ Post
    \/ PostRaises
    \/ PostReturns
    \/ JsonLoadsRaises
    \/ JsonLoads
    \/ AnnoSkip
    \/ AnnoKeyError
    \/ AnnoRange
    \/ TokKeyError
    \/ TokAnnotate
    \/ AnnoEnd
    \/ Return

Spec == Init /\ [][Next]_vars

(***************************************************************************)
(* A second specification: responses of three records, the middle one      *)
(* malformed or not an entity.                                             *)
(***************************************************************************)
Good ==
    {Anno(0, 2, GeoArea, TRUE, TRUE, {}),
     Anno(3, 5, GeoArea, TRUE, TRUE, {}),
     Anno(0, 5, Newspaper, TRUE, TRUE, {})}

Malformed ==
    {Anno(0, 5, GeoArea, TRUE, TRUE, {"start"}),
     Anno(0, 5, GeoArea, TRUE, TRUE, {"end"}),
     Anno(0, 5, GeoArea, TRUE, TRUE, {"matchText"}),
     Anno(0, 5, GeoArea, TRUE, TRUE, {"hierarchy"}),
     Anno(2, 3, GeoArea, TRUE, TRUE, {"hierarchy"}),
     Anno(0, 5, GeoArea, TRUE, TRUE, {"features"}),
     Anno(0, 5, GeoArea, FALSE, TRUE, {"start"})}

InitMalformed ==
    \E layout \in Layouts, before \in Good, bad \in Malformed, after \in Good,
       text \in {None, "", "text"} :
        InitWith(layout, [annoList |-> <<before, bad, after>>], text)

SpecMalformed == InitMalformed /\ [][Next]_vars

(***************************************************************************)
(* The Type Mapper as specified: the exact entry when the full hierarchy   *)
(* is a key (an entry of None gives no type), else the entry of the first  *)
(* segment, else no type.                                                  *)
(***************************************************************************)
NoType == <<None, None>>

PairOf(value) == IF value = NoneEntry THEN NoType ELSE value

TypeMapper(fh) ==
    IF HasKey(fh) THEN PairOf(Get(fh))
    ELSE IF HasKey(<<Head(fh)>>) THEN PairOf(Get(<<Head(fh)>>))
    ELSE NoType

(***************************************************************************)
(* Vocabulary of the properties.                                           *)
(***************************************************************************)
Resp == annoList(service)

Lacks(anno, key) == key \in anno.missing

Flagged(anno) ==
    ~Lacks(anno, "features") /\ ~Lacks(anno, "isEntity") /\ anno.isEntity

Unset(t) ==
    /\ tokens[t].entity_type = None
    /\ tokens[t].mention_type = None
    /\ tokens[t].mention_id = NoneId
    /\ tokens[t].equiv_id = NoneId

SpanMeets(t, anno) ==
    /\ tokens[t].first < anno.end
    /\ tokens[t].first + tokens[t].length > anno.start

\* annotation i of the response is entity-flagged, complete, resolves to a
\* type under the Type Mapper and its span meets token t
Covers(i, t) ==
    /\ Flagged(Resp[i])
    /\ Resp[i].missing = {}
    /\ TypeMapper(Resp[i].hierarchy) # NoType
    /\ SpanMeets(t, Resp[i])

Coverers(t) == {i \in 1..Len(Resp) : Covers(i, t)}

FlaggedBefore(i) == Cardinality({j \in 1..(i - 1) : Flagged(Resp[j])})

InAlignment == pc \in {"anno", "tok"}

\* C1: after process_item succeeded on a document with text, the sentences map
\* holds under 'opensextant' the sentences of 'nltk_tokenizer', a non-empty
\* list and never None.
C1_SentencesEntry ==
    (pc = "idle" /\ HasText /\ outcome = "returned") =>
        /\ tagger_id \in DOMAIN sentences
        /\ sentences[tagger_id] # NoneValue
        /\ sentences[tagger_id] = sentences["nltk_tokenizer"]
        /\ sentences[tagger_id].items # <<>>

\* C2: a token whose span meets no entity-flagged annotation that resolves to
\* a type keeps entity_type, mention_type, mention_id and equiv_id unset.
C2_UncoveredUntouched ==
    \A t \in DOMAIN tokens : Coverers(t) = {} => Unset(t)

\* C3: when the alignment has run through the response, a token covered by
\* exactly one entity-flagged, resolving annotation carries the Type Mapper's
\* pair for that annotation's hierarchy, and mention_id = equiv_id.
C3_SingleCover ==
    AlignmentDone =>
        \A t \in DOMAIN tokens : \A i \in Coverers(t) :
            Coverers(t) = {i} =>
                /\ <<tokens[t].entity_type, tokens[t].mention_type>>
                       = TypeMapper(Resp[i].hierarchy)
                /\ tokens[t].mention_id = tokens[t].equiv_id

\* C4: the pair the token loop resolves for a hierarchy is the Type Mapper's:
\* the exact entry when the hierarchy is a key, an entry of None giving no
\* type; the first segment's entry only when it is not a key; else no type.
C4_LookupOrder ==
    fhierarchy # <<>> => e_m = TypeMapper(fhierarchy)

\* C5 as stated: while the loop is on an entity-flagged annotation whose
\* hierarchy resolves to no type, no token changes and the mention counter
\* does not advance.
C5_SuppressedSkipped ==
    [][(pc = "tok" /\ ~Lacks(Resp[anno_idx], "hierarchy")
           /\ TypeMapper(Resp[anno_idx].hierarchy) = NoType)
        => (tokens' = tokens /\ mention_id' = mention_id)]_vars

\* the lookup finds no type: neither the hierarchy nor its first segment has
\* an entry other than None
FindsNoType(fh) ==
    /\ \A entry \in entity_types : entry[1] = fh => entry[2] = NoneEntry
    /\ \A entry \in entity_types : entry[1] = <<Head(fh)>> => entry[2] = NoneEntry

\* C5 as amended: while the loop is on an entity-flagged annotation for which
\* the lookup finds no type, no token changes, and the step that leaves the
\* annotation advances the mention counter by one.
C5_SuppressedStillCounts ==
    [][(pc = "tok" /\ ~Lacks(Resp[anno_idx], "hierarchy")
           /\ FindsNoType(Resp[anno_idx].hierarchy))
        => /\ tokens' = tokens
           /\ pc' = "tok" => mention_id' = mention_id
           /\ pc' = "anno" => mention_id' = mention_id + 1 /\ anno_idx' = anno_idx + 1
           /\ pc' # "idle"]_vars

\* C5 witness: 'Object' over both tokens came first and left them unset; the
\* next annotation then gave its token mention_id 1.
C5_Witness ==
    /\ AlignmentDone
    /\ Len(tokens) = 2
    /\ Len(Resp) = 2
    /\ Resp[1] = Anno(0, 5, Object, TRUE, TRUE, {})
    /\ Resp[2] = Anno(3, 5, GeoArea, TRUE, TRUE, {})
    /\ Unset(1)
    /\ tokens[2].mention_id = 1

\* C6: when session.post or json.loads fails, process_item still returns the
\* document, and the document's taggings, sentences and tokens are unchanged.
C6_FailureReturnsDocument ==
    [][(pc \in {"posting", "posted"} /\ pc' = "idle")
        => (outcome' = "returned" /\ UNCHANGED <<taggings, sentences, tokens>>)]_vars

\* an entity-flagged record lacking start, end, matchText or hierarchy
MalformedAt(i) ==
    /\ Flagged(Resp[i])
    /\ \E key \in {"start", "end", "matchText", "hierarchy"} : Lacks(Resp[i], key)

\* C7 as stated: on an entity-flagged record that lacks a required field the
\* aligner does not raise and changes no token; it goes on to the next record.
C7_MalformedSkipped ==
    [][(InAlignment /\ anno_idx <= Len(Resp) /\ MalformedAt(anno_idx))
        => (pc' # "idle" /\ tokens' = tokens)]_vars

\* the record lacks a key the loop reads before it looks for tokens
Fatal(i) ==
    /\ Flagged(Resp[i])
    /\ \E key \in {"start", "end", "matchText"} : Lacks(Resp[i], key)

\* C7 as amended: the aligner raises KeyError on an entity-flagged record that
\* lacks start, end or matchText, and on one that lacks hierarchy at the first
\* token find_range gave for it; the tokens stay as the records before set
\* them, and the loop never gets past such a record, so no record after it is
\* applied.  A record lacking hierarchy for which find_range gave no token is
\* passed without effect.
C7_MalformedRaises ==
    [][/\ (pc = "anno" /\ anno_idx <= Len(Resp) /\ Fatal(anno_idx))
           => (pc' = "idle" /\ outcome' = "KeyError" /\ tokens' = tokens)
       /\ (pc = "tok" /\ Lacks(Resp[anno_idx], "hierarchy") /\ range # <<>>)
           => (pc' = "idle" /\ outcome' = "KeyError" /\ tokens' = tokens)
       /\ (pc = "tok" /\ Lacks(Resp[anno_idx], "hierarchy") /\ range = <<>>)
           => (pc' = "anno" /\ anno_idx' = anno_idx + 1 /\ tokens' = tokens)
       /\ InAlignment' => \A j \in 1..(anno_idx' - 1) : ~Fatal(j)]_vars

\* C7 witness: the aligner raised on the second of three records; the first
\* had set token 1, and the third, which covers the unset token 2, was never
\* applied.
C7_Witness ==
    /\ pc = "idle" /\ outcome = "KeyError"
    /\ Len(Resp) = 3 /\ anno_idx = 2
    /\ Len(tokens) = 2
    /\ MalformedAt(2)
    /\ tokens[1].mention_id = 0
    /\ Covers(3, 2) /\ Unset(2)

\* C8: an alignment that runs through the same response again ends with every
\* token's entity_type, mention_type, mention_id and equiv_id as the previous
\* completed alignment left them.
C8_Idempotent ==
    (AlignmentDone /\ completed >= 1) => tokens = snapshot

\* C8 witness: the second alignment is through, after a first one that gave
\* two tokens different mention ids.
C8_Witness ==
    /\ AlignmentDone /\ completed = 1
    /\ tokens[1].mention_id = 0 /\ tokens[2].mention_id = 1

\* C9: every token has entity_type, mention_type, mention_id and equiv_id all
\* unset, or entity_type and mention_type both set; none has a mention_type
\* or a mention_id without an entity_type.
C9_AllOrBoth ==
    \A t \in DOMAIN tokens :
        /\ \/ Unset(t)
           \/ tokens[t].entity_type # None /\ tokens[t].mention_type # None
        /\ (tokens[t].mention_type # None \/ tokens[t].mention_id # NoneId)
               => tokens[t].entity_type # None

\* C9 witness: inside the token loop, one token annotated and the other not.
C9_Witness ==
    /\ pc = "tok"
    /\ tokens[1].entity_type # None /\ tokens[1].mention_id # NoneId
    /\ Unset(2)

\* C10: in the loop the counter equals the number of entity-flagged records
\* already passed, whatever number of tokens each touched; a token's
\* mention_id is that number for one complete entity-flagged record, so one
\* record gives one id, two records never the same, in response order.
C10_CounterPerAnnotation ==
    /\ InAlignment => mention_id = FlaggedBefore(anno_idx)
    /\ \A t \in DOMAIN tokens :
           tokens[t].mention_id # NoneId =>
               \E j \in 1..Len(Resp) :
                   /\ Flagged(Resp[j])
                   /\ FlaggedBefore(j) = tokens[t].mention_id
                   /\ Resp[j].missing = {}

\* C10 witness: the first record touched both tokens (id 0 on both), the
\* second touched none, and the counter stands at 2.
C10_Witness ==
    /\ AlignmentDone
    /\ Len(Resp) = 2
    /\ SpanMeets(1, Resp[1]) /\ SpanMeets(2, Resp[1])
    /\ Flagged(Resp[2]) /\ ~SpanMeets(1, Resp[2]) /\ ~SpanMeets(2, Resp[2])
    /\ tokens[1].mention_id = 0 /\ tokens[2].mention_id = 0
    /\ mention_id = 2

(***************************************************************************)
(* A third specification: responses of three records with overlapping      *)
(* spans, among them suppressed, unflagged and incomplete records.         *)
(***************************************************************************)
Overlapping ==
    {Anno(0, 5, GeoArea, TRUE, TRUE, {}),
     Anno(0, 2, GeoArea, TRUE, TRUE, {}),
     Anno(0, 5, Newspaper, TRUE, TRUE, {}),
     Anno(3, 5, Newspaper, TRUE, TRUE, {}),
     Anno(0, 5, PersonHealth, TRUE, TRUE, {}),
     Anno(0, 5, Object, TRUE, TRUE, {}),
     Anno(0, 5, GeoArea, FALSE, TRUE, {}),
     Anno(0, 5, GeoArea, TRUE, TRUE, {"start"}),
     Anno(0, 5, GeoArea, TRUE, TRUE, {"hierarchy"})}

InitOverlap ==
    \E layout \in Layouts, a \in Overlapping, b \in Overlapping,
       c \in Overlapping, text \in {None, "", "text"} :
        InitWith(layout, [annoList |-> <<a, b, c>>], text)

SpecOverlap == InitOverlap /\ [][Next]_vars

\* the last record of the response that covers token t
LastCoverer(t) == CHOOSE i \in Coverers(t) : \A j \in Coverers(t) : j <= i

\* C11: when the alignment has run through the response, a token covered by
\* two or more entity-flagged, resolving annotations carries the kinds and the
\* mention id of the last of them in response order, and nothing of an
\* earlier one.
C11_LastAppliedWins ==
    AlignmentDone =>
        \A t \in DOMAIN tokens :
            Cardinality(Coverers(t)) >= 2 =>
                /\ <<tokens[t].entity_type, tokens[t].mention_type>>
                       = TypeMapper(Resp[LastCoverer(t)].hierarchy)
                /\ tokens[t].mention_id = FlaggedBefore(LastCoverer(t))
                /\ tokens[t].equiv_id = FlaggedBefore(LastCoverer(t))

====
